---- MODULE Spec2Model ----
(***************************************************************************)
(* shrem (src/src/main.rs): overwrite the given FILE(s) with shred(1) and  *)
(* remove them; with -r, rename a directory through shrinking names and    *)
(* remove it.                                                              *)
(*                                                                         *)
(* Names are sequences of symbol indices: 0..CharsLen-1 is the position of *)
(* a byte in CHARS, and OtherSym stands for any byte that is not in CHARS  *)
(* (such as '.').  A path is [abs, name]: name = <<>> with abs is "/",     *)
(* name = <<>> without abs is the empty path "".  The working directory is *)
(* "/", so the relative path "ab" and the absolute path "/ab" name the     *)
(* same entry of the one directory `fs` the model keeps.                   *)
(***************************************************************************)
EXTENDS Integers, Sequences, FiniteSets, TLC

\* ----------------------------------------------------------------- bounds
MaxArgs == 2
MaxNameLen == 2

\* ------------------------------------------------------ program constants
\* CHARS.len(): the byte string literal holds 10 + 26 + 26 + 1 symbols.
CharsLen == 63
\* a symbol index standing for a byte outside CHARS
OtherSym == CharsLen

VARIABLES
  config,     \* Config record, immutable after start
  args,       \* the FILE arguments
  fs,         \* entries of the directory: name -> [kind, children, ow]
  fs0,        \* the directory as it was at program start
  fsAtCall,   \* the directory when the current shred_file/shred_dir began
  pc,         \* "main" | "dir_loop" | "dir_remove" | "ret" | "exit"
  idx,        \* 1-based position of main's for loop in args
  err,        \* main's `err` flag
  cur,        \* shred_dir's tracked `path`
  orig,       \* the path shred_dir was called with
  n,          \* shred_dir's loop variable
  ret,        \* result of the call that just returned
  results,    \* results of the finished calls, one per processed argument
  ops,        \* what the current call did: prompts, shred runs, renames, rmdir
  log,        \* stdout lines of the current shred_dir call (verbose)
  stderr,     \* diagnostics written by main
  exitcode,   \* process exit code, -1 while running
  faulted     \* an I/O fault of the environment has been injected

vars == <<config, args, fs, fs0, fsAtCall, pc, idx, err, cur, orig, n, ret,
          results, ops, log, stderr, exitcode, faulted>>

\* ------------------------------------------------------------------ paths
RootPath == [abs |-> TRUE, name |-> <<>>]
EmptyPath == [abs |-> FALSE, name |-> <<>>]

is_absolute(p) == p.abs

\* Path::parent(): None for "/" and for "".
parent_is_none(p) == p.name = <<>>

\* Path::file_name() as an option: <<>> is None.
file_name(p) == IF p.name = <<>> THEN <<>> ELSE <<p.name>>

\* PathBuf::set_file_name: replaces the last component.
set_file_name(p, s) == [abs |-> p.abs, name |-> s]

\* Path::exists(): follows symbolic links, so a broken link does not "exist".
exists(f, p) ==
  IF p.name = <<>> THEN p.abs
  ELSE p.name \in DOMAIN f /\ f[p.name].kind # "dangling"

\* Path::is_dir(): follows symbolic links.
is_dir(f, p) ==
  IF p.name = <<>> THEN p.abs
  ELSE p.name \in DOMAIN f /\ f[p.name].kind = "dir"

\* an entry is present in the directory, whatever it is (lstat succeeds)
entry_present(f, p) == p.name # <<>> /\ p.name \in DOMAIN f

Without(f, nm) == [k \in DOMAIN f \ {nm} |-> f[k]]

\* ---------------------------------------------------------- system calls
\* fs::rename(old, new): rename(2).  A directory replaces only an empty
\* directory; onto any other existing entry it fails (ENOTDIR).
rename_ok(f, old, new, fault) ==
  /\ ~fault
  /\ entry_present(f, old)
  /\ new.name # <<>>
  /\ \/ ~entry_present(f, new)
     \/ new.name = old.name
     \/ /\ f[old.name].kind = "dir"
        /\ f[new.name].kind = "dir"
        /\ f[new.name].children = {}
     \/ /\ f[old.name].kind # "dir"
        /\ f[new.name].kind # "dir"

rename_fs(f, old, new) ==
  IF new.name = old.name THEN f
  ELSE [k \in (DOMAIN f \ {old.name}) \cup {new.name} |->
          IF k = new.name THEN f[old.name] ELSE f[k]]

\* fs::remove_dir(path): rmdir(2) removes an empty directory only.
remove_dir_ok(f, p, fault) ==
  /\ ~fault
  /\ entry_present(f, p)
  /\ f[p.name].kind = "dir"
  /\ f[p.name].children = {}

\* mutant of remove_dir_fs: the removal is reported and not carried out
remove_dir_fs_Kept(f, p) == f

remove_dir_fs(f, p) == Without(f, p.name)

\* ------------------------------------------------------ generate_new_path
\* lines 303-310: add one to the counter, least significant index first.
RECURSIVE IncrIdxs(_, _)
IncrIdxs(idxs, i) ==
  LET e == idxs[i] + 1 IN
  IF i # 1 /\ e = CharsLen
  THEN IncrIdxs([idxs EXCEPT ![i] = 0], i - 1)
  ELSE [idxs EXCEPT ![i] = e]

\* mutant of GenLoop: the loop condition is <= instead of <
RECURSIVE GenLoop_OneMore(_, _, _)
GenLoop_OneMore(f, path, idxs) ==
  IF idxs[1] <= CharsLen
  THEN LET p == set_file_name(path, idxs) IN
       IF ~exists(f, p) THEN <<p>>
       ELSE GenLoop_OneMore(f, path, IncrIdxs(idxs, Len(idxs)))
  ELSE <<>>

\* mutant of GenLoop: the candidate is returned without the test of line 299
GenLoop_NoCheck(f, path, idxs) ==
  IF idxs[1] < CharsLen THEN <<set_file_name(path, idxs)>> ELSE <<>>

\* lines 295-311: the while loop; <<>> is None.
RECURSIVE GenLoop(_, _, _)
GenLoop(f, path, idxs) ==
  IF idxs[1] < CharsLen
  THEN LET p == set_file_name(path, idxs) IN
       IF ~exists(f, p) THEN <<p>>
       ELSE GenLoop(f, path, IncrIdxs(idxs, Len(idxs)))
  ELSE <<>>

generate_new_path(f, path, length) ==
  GenLoop(f, path, [i \in 1..length |-> 0])

\* ------------------------------------------------------------------ prompt
\* mutant of prompt: an empty line counts as yes
prompt_EmptyIsYes(line) ==
  IF Len(line) = 0 \/ line[1] \in {"y", "Y"} THEN TRUE ELSE FALSE

\* lines 281-284: the first character decides.
prompt(line) ==
  IF Len(line) > 0 /\ line[1] \in {"y", "Y"} THEN TRUE ELSE FALSE

\* lines of input the model feeds to a prompt
Lines == {<<"y">>, <<"Y">>, <<"n">>, <<>>}

\* ----------------------------------------------------------- get_shred_cmd
get_shred_cmd(c) ==
  <<"shred", "-z">>
    \o (IF ~c.no_remove THEN <<"-u">> ELSE <<>>)
    \o (IF c.verbose THEN <<"-v">> ELSE <<>>)
    \o (IF c.iterations # <<>> THEN <<"-n N">> ELSE <<>>)

HasArg(cmd, a) == \E i \in DOMAIN cmd : cmd[i] = a

\* shred(1) exiting 0: the file is overwritten, and unlinked under -u.
shred_fs(f, p, cmd) ==
  IF HasArg(cmd, "-u") THEN Without(f, p.name)
  ELSE [f EXCEPT ![p.name].ow = TRUE]

\* ------------------------------------------------------------- shred_file
Result(r, f, o, flt) == [ret |-> r, fs |-> f, ops |-> o, faulted |-> flt]

NoInfo == <<>>

PromptOp(p, inp) ==
  [op |-> "prompt", path |-> p, to |-> EmptyPath, ok |-> inp.ok, info |-> inp.line]

ShredOp(p, cmd, done) ==
  [op |-> "shred", path |-> p, to |-> EmptyPath, ok |-> done, info |-> cmd]

RenameOp(old, new, done) ==
  [op |-> "rename", path |-> old, to |-> new, ok |-> done, info |-> NoInfo]

RmdirOp(p, done) ==
  [op |-> "rmdir", path |-> p, to |-> EmptyPath, ok |-> done, info |-> NoInfo]

\* what a read of standard input gives: a line, or an I/O error
Inputs == {[ok |-> TRUE, line |-> l] : l \in Lines} \cup {[ok |-> FALSE, line |-> <<>>]}

\* mutant of prompt_read: a failed read counts as a negative answer
prompt_read_FailIsNo(inp) ==
  IF inp.ok /\ prompt(inp.line) THEN "yes" ELSE "no"

\* lines 276-285 with the `?` of lines 199 and 230: a failed read_line is
\* returned as an error by prompt and passed on by its caller
prompt_read(inp) ==
  IF ~inp.ok THEN "err" ELSE IF prompt(inp.line) THEN "yes" ELSE "no"

\* how the shred subprocess ends: exit 0, exit non-zero, or it cannot be spawned
ShredOutcomes == {"ok", "nonzero", "spawnfail"}

\* lines 199-208: the prompt and the run of shred
shred_file_run(f, p, c, inp, out) ==
  IF c.interactive /\ prompt_read(inp) = "err"
       THEN Result("IoError", f, <<PromptOp(p, inp)>>, TRUE)
  ELSE IF c.interactive /\ prompt_read(inp) = "no"
       THEN Result("Ok", f, <<PromptOp(p, inp)>>, FALSE)
  ELSE LET pre == IF c.interactive THEN <<PromptOp(p, inp)>> ELSE <<>>
           cmd == get_shred_cmd(c)
       IN  IF out = "spawnfail"
           THEN Result("IoError", f, Append(pre, ShredOp(p, cmd, FALSE)), TRUE)
           ELSE IF out = "nonzero"
           THEN Result("ExternalProcessError", f, Append(pre, ShredOp(p, cmd, FALSE)), TRUE)
           ELSE Result("Ok", shred_fs(f, p, cmd), Append(pre, ShredOp(p, cmd, TRUE)), FALSE)

\* mutant of shred_file: the test for a directory is missing
shred_file_NoDirCheck(f, p, c, inp, out) ==
  IF ~exists(f, p) THEN Result("NotFound", f, <<>>, FALSE)
  ELSE shred_file_run(f, p, c, inp, out)

\* lines 188-209, with the line read by prompt and the outcome of shred given
shred_file(f, p, c, inp, out) ==
  IF ~exists(f, p) THEN Result("NotFound", f, <<>>, FALSE)
  ELSE IF is_dir(f, p) THEN Result("IsADirectory", f, <<>>, FALSE)
  ELSE shred_file_run(f, p, c, inp, out)

\* -------------------------------------------------------------- shred_dir
\* mutant of IsPreservedRoot: the test of parent() inverted
IsPreservedRoot_ParentFlipped(c, p) ==
  c.preserve_root /\ is_absolute(p) /\ ~parent_is_none(p)

\* line 222
IsPreservedRoot(c, p) == c.preserve_root /\ is_absolute(p) /\ parent_is_none(p)

\* lines 216-233: the checks and the prompt before the rename loop;
\* ret = "continue" when the body of the `if` at line 230 is entered.
shred_dir_enter(f, p, c, inp) ==
  IF ~exists(f, p) THEN Result("NotFound", f, <<>>, FALSE)
  ELSE IF IsPreservedRoot(c, p) THEN Result("PreservedRootError", f, <<>>, FALSE)
  ELSE IF c.no_remove THEN Result("Ok", f, <<>>, FALSE)
  ELSE IF c.interactive /\ prompt_read(inp) = "err"
       THEN Result("IoError", f, <<PromptOp(p, inp)>>, TRUE)
  ELSE IF c.interactive /\ prompt_read(inp) = "no"
       THEN Result("Ok", f, <<PromptOp(p, inp)>>, FALSE)
  ELSE Result("continue", f, IF c.interactive THEN <<PromptOp(p, inp)>> ELSE <<>>, FALSE)

\* mutant of FirstLen: the range of the loop starts one too high
FirstLen_OffByOne(p) == Len(p.name) + 1

\* line 235-236: the first length the loop tries, len of (1..len + 1).rev()
FirstLen(p) == Len(p.name)

\* line 236: the length after n in (1..len + 1).rev()
NextLen(k) == k - 1

\* mutant of TrackedAfterRename: the assignment of line 248 is missing
TrackedAfterRename_Stale(path, new_path) == path

\* line 248: path = new_path
TrackedAfterRename(path, new_path) == new_path

\* mutant of OnRenameError: the error of fs::rename is dropped and the loop
\* goes on
OnRenameError_Ignored(k) ==
  [pc |-> IF NextLen(k) >= 1 THEN "dir_loop" ELSE "dir_remove", ret |-> "none"]

\* line 247: the `?` after fs::rename returns the error from shred_dir
OnRenameError(k) == [pc |-> "ret", ret |-> "IoError"]

\* mutant of OnExhausted: no free name is an error returned by shred_dir
OnExhausted_Fails(k) == [pc |-> "ret", ret |-> "IoError"]

\* line 238: None => break leaves the loop for the removal at line 252
OnExhausted(k) == [pc |-> "dir_remove", ret |-> "none"]

LogLine(m, p, q) == [msg |-> m, path |-> p, to |-> q]

\* ------------------------------------------------------------------- main
\* mutant of NextErr: the flag follows the last call only
NextErr_Overwritten(e, failed) == failed

\* lines 91, 100, 120: err = true on a failure
NextErr(e, failed) == IF failed THEN TRUE ELSE e

\* mutant of MainStops: the test of force inverted
MainStops_ForceFlipped(c, e, failed) ==
  IF c.recursive THEN e /\ c.force ELSE failed /\ c.force

\* lines 104-106 (recursive) and 128-130 (not recursive)
MainStops(c, e, failed) ==
  IF c.recursive THEN e /\ ~c.force ELSE failed /\ ~c.force

\* lines 86-90, 95-99, 122-126
Diagnostic(c, p, isdir, r) ==
  [what |-> IF ~c.recursive THEN "cannot remove"
            ELSE IF isdir THEN "cannot remove directory" ELSE "cannot remove file",
   path |-> p, e |-> r]

\* ---------------------------------------------------------- initial states
\* Option<usize> of -n: <<>> is None
IterationChoices == {<<>>, <<3>>}

Configs ==
  [recursive : BOOLEAN, force : BOOLEAN, verbose : BOOLEAN,
   interactive : BOOLEAN, preserve_root : BOOLEAN, no_remove : BOOLEAN,
   iterations : IterationChoices]

Zeros(k) == [i \in 1..k |-> 0]

\* the directory argument, k times the symbol s: "/a", "/aa", "/0", "/00", ...
DName(k, s) == [i \in 1..k |-> s]
DPath(k, s) == [abs |-> TRUE, name |-> DName(k, s)]

\* the symbols a directory argument is made of: 'a', or '0' (a name the
\* generator itself produces)
DirSyms == {10, 0}

\* the file argument "0": a name the generator tries first at length 1
FName == <<0>>
FPath == [abs |-> FALSE, name |-> FName]

\* an argument that names nothing: "m."
MName == <<22, OtherSym>>
MPath == [abs |-> FALSE, name |-> MName]

\* where the obstacle of a scenario (a broken symbolic link or an empty
\* directory) sits: the first candidate of length k that FName does not take
DangName(k) == IF k = 1 THEN <<1>> ELSE Zeros(k)

SingleNames == {<<i>> : i \in 0..(CharsLen - 1)}

FileEntry == [kind |-> "file", children |-> {}, ow |-> FALSE]
LinkEntry == [kind |-> "dangling", children |-> {}, ow |-> FALSE]
DirEntry(ch) == [kind |-> "dir", children |-> ch, ow |-> FALSE]

\* what a directory argument may hold: nothing, or a file and a subdirectory
ChildrenChoices == {{}, {"a.txt", "sub"}}

\* what sits on a name the generator would try: a broken symbolic link, or
\* an empty directory (which rename(2) would replace)
ObstacleKinds == {"dangling", "dir"}

\* dlen, dsym: the directory's name; dang: 0, or the length of the name the
\* obstacle sits on; okind: what the obstacle is; sat: every one-symbol name
\* is taken
Scenarios ==
  [dlen : 1..MaxNameLen, dsym : DirSyms, children : ChildrenChoices,
   dang : 0..MaxNameLen, okind : ObstacleKinds, sat : BOOLEAN]

Plain(sc) == sc.dlen = MaxNameLen /\ sc.dang = 0 /\ ~sc.sat

MkFs(sc) ==
  LET dn == DName(sc.dlen, sc.dsym)
      ln == IF sc.dang = 0 THEN {} ELSE {DangName(sc.dang)}
      dom == {dn, FName} \cup ln \cup (IF sc.sat THEN SingleNames ELSE {})
  IN  [k \in dom |->
         IF k = dn THEN DirEntry(sc.children)
         ELSE IF k \in ln
              THEN (IF sc.okind = "dir" THEN DirEntry({}) ELSE LinkEntry)
         ELSE FileEntry]

ArgPaths(sc) == {RootPath, DPath(sc.dlen, sc.dsym), FPath, MPath}

SeqsUpTo(S, m) == UNION {[1..k -> S] : k \in 0..m}

\* the argument lists of a scenario: any list in the plain scenario, the
\* directory alone in the others
ArgLists(sc) ==
  IF Plain(sc) THEN SeqsUpTo(ArgPaths(sc), MaxArgs) ELSE {<<DPath(sc.dlen, sc.dsym)>>}

Init ==
  /\ config \in Configs
  /\ \E sc \in Scenarios :
       /\ fs = MkFs(sc)
       /\ args \in ArgLists(sc)
  /\ fs0 = fs
  /\ fsAtCall = fs
  /\ pc = "main"
  /\ idx = 1
  /\ err = FALSE
  /\ cur = EmptyPath
  /\ orig = EmptyPath
  /\ n = 0
  /\ ret = "none"
  /\ results = <<>>
  /\ ops = <<>>
  /\ log = <<>>
  /\ stderr = <<>>
  /\ exitcode = -1
  /\ faulted = FALSE

\* ----------------------------------------------------------------- actions
\* lines 94 and 119: main calls shred_file, which runs to its return
CallShredFile ==
  /\ pc = "main"
  /\ idx <= Len(args)
  /\ ~(config.recursive /\ is_dir(fs, args[idx]))
  /\ \E inp \in Inputs, out \in ShredOutcomes :
       LET r == shred_file(fs, args[idx], config, inp, out) IN
       /\ fs' = r.fs
       /\ ret' = r.ret
       /\ ops' = r.ops
       /\ faulted' = (faulted \/ r.faulted)
  /\ fsAtCall' = fs
  /\ pc' = "ret"
  /\ log' = <<>>
  /\ cur' = EmptyPath
  /\ orig' = EmptyPath
  /\ n' = 0
  /\ UNCHANGED <<config, args, fs0, idx, err, results, stderr, exitcode>>

\* line 85: main calls shred_dir, which runs up to its rename loop
CallShredDir ==
  /\ pc = "main"
  /\ idx <= Len(args)
  /\ config.recursive /\ is_dir(fs, args[idx])
  /\ \E inp \in Inputs :
       LET p == args[idx]
           r == shred_dir_enter(fs, p, config, inp)
       IN
       /\ ops' = r.ops
       /\ faulted' = (faulted \/ r.faulted)
       /\ IF r.ret = "continue"
          THEN /\ ret' = "none"
               /\ log' = IF config.verbose
                         THEN <<LogLine("removing", p, EmptyPath)>> ELSE <<>>
               /\ IF file_name(p) = <<>>
                  THEN pc' = "dir_remove" /\ n' = 0
                  ELSE pc' = "dir_loop" /\ n' = FirstLen(p)
          ELSE /\ ret' = r.ret
               /\ log' = <<>>
               /\ pc' = "ret"
               /\ n' = 0
  /\ cur' = args[idx]
  /\ orig' = args[idx]
  /\ fsAtCall' = fs
  /\ UNCHANGED <<config, args, fs, fs0, idx, err, results, stderr, exitcode>>

\* lines 236-249: one iteration of the rename loop
DirRenameStep ==
  /\ pc = "dir_loop"
  /\ \E fault \in BOOLEAN :
       LET g == generate_new_path(fs, cur, n) IN
       IF g = <<>>
       THEN /\ pc' = OnExhausted(n).pc
            /\ ret' = OnExhausted(n).ret
            /\ UNCHANGED <<fs, cur, n, ops, log, faulted>>
       ELSE LET new_path == g[1] IN
            /\ log' = IF config.verbose
                      THEN Append(log, LogLine("renamed", cur, new_path)) ELSE log
            /\ faulted' = (faulted \/ fault)
            /\ IF rename_ok(fs, cur, new_path, fault)
               THEN /\ fs' = rename_fs(fs, cur, new_path)
                    /\ ops' = Append(ops, RenameOp(cur, new_path, TRUE))
                    /\ cur' = TrackedAfterRename(cur, new_path)
                    /\ n' = NextLen(n)
                    /\ pc' = IF NextLen(n) >= 1 THEN "dir_loop" ELSE "dir_remove"
                    /\ ret' = ret
               ELSE /\ ops' = Append(ops, RenameOp(cur, new_path, FALSE))
                    /\ ret' = OnRenameError(n).ret
                    /\ pc' = OnRenameError(n).pc
                    /\ UNCHANGED <<fs, cur, n>>
  /\ UNCHANGED <<config, args, fs0, fsAtCall, idx, err, orig, results, stderr,
                 exitcode>>

\* lines 252-258: the final removal and the return
DirRemove ==
  /\ pc = "dir_remove"
  /\ \E fault \in BOOLEAN :
       /\ faulted' = (faulted \/ fault)
       /\ IF remove_dir_ok(fs, cur, fault)
          THEN /\ fs' = remove_dir_fs(fs, cur)
               /\ ops' = Append(ops, RmdirOp(cur, TRUE))
               /\ log' = IF config.verbose
                         THEN Append(log, LogLine("removed", cur, EmptyPath)) ELSE log
               /\ ret' = "Ok"
          ELSE /\ ops' = Append(ops, RmdirOp(cur, FALSE))
               /\ ret' = "IoError"
               /\ UNCHANGED <<fs, log>>
  /\ pc' = "ret"
  /\ UNCHANGED <<config, args, fs0, fsAtCall, idx, err, cur, orig, n, results,
                 stderr, exitcode>>

\* lines 85-106 and 119-131: main takes the result of the call
MainAfter ==
  /\ pc = "ret"
  /\ LET failed == ret # "Ok"
         e == NextErr(err, failed)
     IN
     /\ results' = Append(results, ret)
     /\ err' = e
     /\ stderr' = IF failed
                  THEN Append(stderr, Diagnostic(config, args[idx], orig # EmptyPath, ret))
                  ELSE stderr
     /\ IF MainStops(config, e, failed)
        THEN pc' = "exit" /\ exitcode' = 1 /\ idx' = idx
        ELSE pc' = "main" /\ exitcode' = exitcode /\ idx' = idx + 1
  /\ ret' = "none"
  /\ UNCHANGED <<config, args, fs, fs0, fsAtCall, cur, orig, n, ops, log, faulted>>

\* lines 109-111 and 134-136: the loop is over
MainEnd ==
  /\ pc = "main"
  /\ idx > Len(args)
  /\ pc' = "exit"
  /\ exitcode' = IF err THEN 1 ELSE 0
  /\ UNCHANGED <<config, args, fs, fs0, fsAtCall, idx, err, cur, orig, n, ret,
                 results, ops, log, stderr, faulted>>

Next ==
  \/ CallShredFile
  \/ CallShredDir
  \/ DirRenameStep
  \/ DirRemove
  \/ MainAfter
  \/ MainEnd

Spec == Init /\ [][Next]_vars

TypeOK ==
  /\ pc \in {"main", "dir_loop", "dir_remove", "ret", "exit"}
  /\ idx \in 1..(Len(args) + 1)
  /\ err \in BOOLEAN
  /\ n \in 0..MaxNameLen
  /\ Len(results) <= Len(args)
  /\ exitcode \in {-1, 0, 1}

\* ================================================================== claims
InShredDir == orig # EmptyPath

Failed(r) == r # "Ok"

SomeFailure == \E i \in DOMAIN results : Failed(results[i])

NoBrokenLink(f) == \A k \in DOMAIN f : f[k].kind # "dangling"

RenamesDone == SelectSeq(ops, LAMBDA o : o.op = "rename" /\ o.ok)

\* C1: recursive, not interactive, not forced, nothing failing in the
\* environment: run on a directory that holds a file and a subdirectory, the
\* program ends with exit code 0 and nothing of the directory is left.
C1_TreeRemoved ==
  ( /\ pc = "exit"
    /\ config.recursive /\ ~config.interactive /\ ~config.force
    /\ ~config.no_remove
    /\ ~faulted
    /\ NoBrokenLink(fs0)
    /\ Len(args) = 1
    /\ entry_present(fs0, args[1])
    /\ fs0[args[1].name].kind = "dir"
    /\ fs0[args[1].name].children # {} )
  => /\ exitcode = 0
     /\ DOMAIN fs = DOMAIN fs0 \ {args[1].name}

\* C2: when shred_dir is about to rename or remove a directory, the
\* directory is empty.
C2_EmptyWhenObliterated ==
  (pc \in {"dir_loop", "dir_remove"} /\ entry_present(fs, cur))
  => fs[cur.name].children = {}

\* C3: with force, the call on a path that does not exist returns success,
\* changes nothing and runs nothing.
C3_ForceMissingSucceeds ==
  (pc = "ret" /\ config.force /\ ~exists(fsAtCall, args[idx]))
  => /\ ret = "Ok"
     /\ fs = fsAtCall
     /\ ops = <<>>

\* C4: recursive on "/": with preserve_root the call fails with
\* PreservedRootError and has prompted, run, renamed, removed and logged
\* nothing, whatever force, no_remove, interactive and verbose are; without
\* preserve_root the call does not end with PreservedRootError.
C4_RootPreserved ==
  /\ (config.recursive /\ config.preserve_root /\ pc \in {"dir_loop", "dir_remove"})
       => orig # RootPath
  /\ (pc = "ret" /\ config.recursive /\ args[idx] = RootPath)
       => IF config.preserve_root
          THEN /\ ret = "PreservedRootError"
               /\ ops = <<>>
               /\ log = <<>>
               /\ fs = fsAtCall
          ELSE /\ ret # "PreservedRootError"
               /\ config.no_remove => ret = "Ok"
               /\ (~config.no_remove /\ ~config.interactive) => ops # <<>>

C4_Witness ==
  /\ pc = "ret"
  /\ config.recursive /\ config.preserve_root
  /\ config.force /\ config.interactive /\ ~config.no_remove /\ config.verbose
  /\ args[idx] = RootPath
  /\ ret = "PreservedRootError"

\* C5 as stated: every rename of a chain, the first one included, gives the
\* directory a name strictly shorter than the one it had.
C5_EveryRenameShorter ==
  \A i \in DOMAIN RenamesDone :
    Len(RenamesDone[i].to.name) < Len(RenamesDone[i].path.name)

\* C5 amended: the first rename of a chain gives a name of the same byte
\* length as the original name, and every later rename a name strictly
\* shorter (by one byte) than the name before it.
C5_ChainLengths ==
  \A i \in DOMAIN RenamesDone :
    /\ i = 1 => /\ RenamesDone[i].path = orig
                /\ Len(RenamesDone[i].to.name) = Len(orig.name)
    /\ i > 1 => /\ RenamesDone[i].path = RenamesDone[i - 1].to
                /\ Len(RenamesDone[i].to.name) < Len(RenamesDone[i].path.name)
                /\ Len(RenamesDone[i].to.name) = Len(RenamesDone[i].path.name) - 1

C5_Witness ==
  /\ pc = "ret"
  /\ ret = "Ok"
  /\ Len(RenamesDone) = MaxNameLen
  /\ MaxNameLen >= 2

\* C6: the name shred_dir is about to rename the directory to is the name
\* of no entry of the parent directory.
C6_TargetAbsent ==
  pc = "dir_loop" =>
    LET g == generate_new_path(fs, cur, n) IN
    g # <<>> => ~entry_present(fs, g[1])

\* C7: when shred_dir returns success (not interactive, no_remove false),
\* neither the original name nor any name of the rename chain is left, the
\* last name of the chain is the one that was removed, and nothing else in
\* the parent directory has changed.
C7_NothingLeft ==
  (pc = "ret" /\ InShredDir /\ ret = "Ok"
     /\ ~config.interactive /\ ~config.no_remove)
  => /\ ~entry_present(fs, orig)
     /\ \A i \in DOMAIN ops :
          ops[i].op = "rename" => ~entry_present(fs, ops[i].to)
     /\ ops # <<>>
     /\ ops[Len(ops)] =
          RmdirOp(IF RenamesDone = <<>> THEN orig
                  ELSE RenamesDone[Len(RenamesDone)].to, TRUE)
     /\ DOMAIN fs = DOMAIN fsAtCall \ {orig.name}

C7_Witness ==
  /\ pc = "ret" /\ InShredDir /\ ret = "Ok"
  /\ ~config.interactive /\ ~config.no_remove
  /\ Len(RenamesDone) >= 2

\* C8: without force, a failed call is the last call: the program exits
\* with code 1 right after writing its diagnostic, and main's loop never
\* moves to a later argument.
C8_StopsAtFirstFailure ==
  ~config.force =>
    \A i \in DOMAIN results :
      Failed(results[i]) =>
        /\ i = Len(results)
        /\ idx = i
        /\ pc = "exit"
        /\ exitcode = 1
        /\ Len(stderr) = 1
        /\ stderr[1].path = args[i]

C8_Witness ==
  /\ pc = "exit"
  /\ ~config.force /\ ~config.recursive
  /\ args = <<MPath, FPath>>
  /\ results = <<"NotFound">>
  /\ exitcode = 1
  /\ fs = fs0

\* C9: with force, every argument is attempted in order, the failure flag
\* is set exactly when a call has failed, and the exit code is 1 exactly
\* when some call failed, else 0.
C9_ForceContinues ==
  config.force =>
    /\ err = SomeFailure
    /\ Len(stderr) = Cardinality({i \in DOMAIN results : Failed(results[i])})
    /\ pc # "exit" => idx = Len(results) + 1
    /\ pc = "exit" =>
         /\ Len(results) = Len(args)
         /\ exitcode = IF SomeFailure THEN 1 ELSE 0

C9_Witness ==
  /\ pc = "exit"
  /\ config.force
  /\ Len(args) = 2
  /\ Failed(results[1])
  /\ results[2] = "Ok"
  /\ exitcode = 1

\* C10: interactive, the prompt answered "n" or with an empty line: the
\* call returns success and has invoked nothing, renamed nothing, removed
\* nothing and logged nothing.
NegativeLines == {<<"n">>, <<>>}

PromptedNo ==
  /\ config.interactive
  /\ ops # <<>>
  /\ ops[1].op = "prompt"
  /\ ops[1].ok
  /\ ops[1].info \in NegativeLines

C10_NoLeavesTarget ==
  /\ (pc \in {"dir_loop", "dir_remove"}) => ~PromptedNo
  /\ (pc = "ret" /\ PromptedNo)
       => /\ ret = "Ok"
          /\ Len(ops) = 1
          /\ log = <<>>
          /\ fs = fsAtCall

C10_Witness ==
  /\ pc = "ret"
  /\ PromptedNo
  /\ ops[1].info = <<"n">>
  /\ InShredDir
  /\ entry_present(fs, orig)

\* C11 as stated: a failed read of the answer counts as "no": the call
\* returns success and has changed and invoked nothing.
ReadFailed ==
  /\ config.interactive
  /\ ops # <<>>
  /\ ops[1].op = "prompt"
  /\ ~ops[1].ok

C11_ReadFailureIsNo ==
  (pc = "ret" /\ ReadFailed)
  => /\ ret = "Ok"
     /\ Len(ops) = 1
     /\ fs = fsAtCall

\* C11 amended: a failed read of the answer makes the call fail with the
\* I/O error; the target is unmodified and nothing has been invoked,
\* renamed, removed or logged.
C11_ReadFailureIsError ==
  /\ (pc \in {"dir_loop", "dir_remove"}) => ~ReadFailed
  /\ (pc = "ret" /\ ReadFailed)
       => /\ ret = "IoError"
          /\ Len(ops) = 1
          /\ log = <<>>
          /\ fs = fsAtCall

C11_Witness ==
  /\ pc = "ret"
  /\ ReadFailed
  /\ ~InShredDir
  /\ entry_present(fs, args[idx])
  /\ ret = "IoError"

\* ------------------------------------------------- order of the candidates
\* a name of exactly len symbols of CHARS
IsCandidate(k, len) == Len(k) = len /\ \A i \in 1..len : k[i] < CharsLen

\* lexicographic order on names of one length, first symbol most significant
LexLess(a, b) ==
  \E i \in 1..Len(a) : a[i] < b[i] /\ \A j \in 1..(i - 1) : a[j] = b[j]

\* how many names of its length come before a candidate in that order
RECURSIVE Rank(_)
Rank(k) ==
  IF k = <<>> THEN 0
  ELSE Rank(SubSeq(k, 1, Len(k) - 1)) * CharsLen + k[Len(k)]

\* the entries of the directory that are candidates of length len before k
TakenBefore(f, k, len) ==
  {e \in DOMAIN f : IsCandidate(e, len) /\ LexLess(e, k)}

\* C12: the name generate_new_path returns for length n has exactly n
\* symbols, is the name of no entry beside the path, and every candidate of
\* that length before it in lexicographic order is the name of an entry.
C12_FirstFreeCandidate ==
  pc = "dir_loop" =>
    LET g == generate_new_path(fs, cur, n) IN
    g # <<>> =>
      /\ IsCandidate(g[1].name, n)
      /\ g[1].abs = cur.abs
      /\ ~entry_present(fs, g[1])
      /\ Cardinality(TakenBefore(fs, g[1].name, n)) = Rank(g[1].name)

\* what generate_new_path does guarantee: the same with "is the name of an
\* entry" read as Path::exists, which is false for a broken symbolic link
GenFirstNotExisting ==
  pc = "dir_loop" =>
    LET g == generate_new_path(fs, cur, n) IN
    g # <<>> =>
      /\ IsCandidate(g[1].name, n)
      /\ g[1].abs = cur.abs
      /\ ~exists(fs, g[1])
      /\ Cardinality({e \in TakenBefore(fs, g[1].name, n) :
                        exists(fs, set_file_name(cur, e))}) = Rank(g[1].name)

\* the candidates of length len that Path::exists finds beside path
ExistingCandidates(f, path, len) ==
  {e \in DOMAIN f :
     /\ Len(e) = len
     /\ \A i \in 1..len : e[i] < 63
     /\ exists(f, set_file_name(path, e))}

\* C13 as stated: generate_new_path gives no result exactly when all
\* 64^length names of that length exist beside the path.
C13_ExhaustedAt64 ==
  pc = "dir_loop" =>
    ( generate_new_path(fs, cur, n) = <<>>
      <=> Cardinality({e \in DOMAIN fs : Len(e) = n /\ exists(fs, set_file_name(cur, e))})
            = 64 ^ n )

\* C13 amended: the alphabet 0-9a-zA-Z_ has 63 symbols; generate_new_path
\* gives no result exactly when all 63^length names of that length over it
\* exist (Path::exists) beside the path: for length 1, after 63 names.
C13_ExhaustedAt63 ==
  pc = "dir_loop" =>
    ( generate_new_path(fs, cur, n) = <<>>
      <=> Cardinality(ExistingCandidates(fs, cur, n)) = 63 ^ n )

C13_Witness ==
  /\ pc = "dir_loop"
  /\ n = 1
  /\ generate_new_path(fs, cur, n) = <<>>
  /\ Cardinality(ExistingCandidates(fs, cur, 1)) = 63

\* C14: shred_file on a path that does not exist returns NotFound and on a
\* directory returns IsADirectory, having prompted, run and changed nothing;
\* not recursive, no directory of the start is ever modified.
InShredFile == pc = "ret" /\ ~InShredDir

C14_PreconditionsFirst ==
  /\ (InShredFile /\ ~exists(fsAtCall, args[idx]))
       => /\ ret = "NotFound"
          /\ ops = <<>>
          /\ fs = fsAtCall
  /\ (InShredFile /\ is_dir(fsAtCall, args[idx]))
       => /\ ret = "IsADirectory"
          /\ ops = <<>>
          /\ fs = fsAtCall
  /\ ~config.recursive =>
       \A k \in DOMAIN fs0 :
         fs0[k].kind = "dir" => (k \in DOMAIN fs /\ fs[k] = fs0[k])

C14_Witness ==
  /\ InShredFile
  /\ ~config.recursive /\ config.interactive /\ config.force
  /\ entry_present(fsAtCall, args[idx])
  /\ is_dir(fsAtCall, args[idx])
  /\ ret = "IsADirectory"
  /\ fs = fs0

\* C15: while shred_dir renames and removes, its tracked path is the name
\* under which the directory exists: the original path before any rename,
\* the target of the last rename after it; every rename starts from that
\* name and the removal is applied to it.
RenamesTried == SelectSeq(ops, LAMBDA o : o.op = "rename")

\* where the directory is after the first k renames of the call
PlaceAfter(k) == IF k = 0 THEN orig ELSE RenamesTried[k].to

C15_TrackedPathCurrent ==
  /\ (pc \in {"dir_loop", "dir_remove"} /\ orig # RootPath)
       => /\ cur = PlaceAfter(Len(RenamesDone))
          /\ entry_present(fs, cur)
          /\ fs[cur.name] = fsAtCall[orig.name]
  /\ InShredDir =>
       /\ \A i \in DOMAIN RenamesTried : RenamesTried[i].path = PlaceAfter(i - 1)
       /\ \A i \in DOMAIN ops :
            ops[i].op = "rmdir" => ops[i].path = PlaceAfter(Len(RenamesDone))

C15_Witness ==
  /\ pc = "ret"
  /\ InShredDir
  /\ Len(RenamesDone) >= 2
  /\ ops[Len(ops)].op = "rmdir"
  /\ ops[Len(ops)].path = RenamesDone[Len(RenamesDone)].to
  /\ ops[Len(ops)].path # orig

\* C16: the first rename or removal of shred_dir that fails is its last
\* step: the call returns that I/O error, no rename and no removal follows,
\* and after a failed rename the directory is still under the name it had
\* before that rename.
FailedSteps == {i \in DOMAIN ops : ops[i].op \in {"rename", "rmdir"} /\ ~ops[i].ok}

C16_FirstFailureAborts ==
  /\ (pc \in {"dir_loop", "dir_remove"}) => FailedSteps = {}
  /\ (InShredDir /\ pc \in {"ret", "main", "exit"}) =>
       \A i \in FailedSteps :
         /\ i = Len(ops)
         /\ pc = "ret" => ret = "IoError"
         /\ fs = IF Len(RenamesDone) = 0 THEN fsAtCall
                 ELSE rename_fs(fsAtCall, orig, RenamesDone[Len(RenamesDone)].to)
         /\ (ops[i].op = "rename" /\ orig # RootPath) =>
              /\ entry_present(fs, ops[i].path)
              /\ fs[ops[i].path.name] = fsAtCall[orig.name]
              /\ \A j \in DOMAIN ops : ops[j].op # "rmdir"

C16_Witness ==
  /\ pc = "ret"
  /\ InShredDir
  /\ ret = "IoError"
  /\ Len(RenamesDone) >= 1
  /\ ops[Len(ops)].op = "rename"
  /\ ~ops[Len(ops)].ok
  /\ entry_present(fs, ops[Len(ops)].path)

\* C17: when generate_new_path gives no name for the length n of the loop,
\* the step renames nothing and reports nothing, and leaves the loop for the
\* removal; the removal is then applied to the name the directory holds, no
\* rename follows, and the call succeeds exactly when the removal does.
Exhausted == pc = "dir_loop" /\ generate_new_path(fs, cur, n) = <<>>

LogLines(m) == {i \in DOMAIN log : log[i].msg = m}

C18_LogReflectsRenames ==
  (InShredDir /\ config.verbose) =>
     /\ Cardinality(LogLines("renamed")) = Len(RenamesDone)
     /\ \A i \in LogLines("renamed") :
          \E j \in DOMAIN ops : ops[j] = RenameOp(log[i].path, log[i].to, TRUE)
     /\ (LogLines("removed") # {} =>
           /\ ops # <<>>
           /\ ops[Len(ops)].op = "rmdir"
           /\ ops[Len(ops)].ok)

\* C19: with no_remove, a call of shred_dir on an existing directory (not the
\* preserved root) returns success with the file tree as it was at the call,
\* no rename and no rmdir among its operations, and the content below the
\* directory handed to shred without -u.
NoRemoveDirCall ==
  /\ pc = "ret"
  /\ InShredDir
  /\ config.no_remove
  /\ is_dir(fsAtCall, orig)
  /\ ~IsPreservedRoot(config, orig)

\* what lies below a directory: the entries of the tree for the root
ContentBelow(f, p) == IF p.name = <<>> THEN DOMAIN f ELSE f[p.name].children

C19_KeptAndOverwritten ==
  NoRemoveDirCall =>
     /\ ret = "Ok"
     /\ fs = fsAtCall
     /\ \A i \in DOMAIN ops : ops[i].op \notin {"rename", "rmdir"}
     /\ (ContentBelow(fsAtCall, orig) # {} =>
           \E i \in DOMAIN ops :
              /\ ops[i].op = "shred"
              /\ ops[i].ok
              /\ ~HasArg(ops[i].info, "-u"))

\* the part of C19 that the code does keep: nothing renamed or removed, success
NoRemoveKeepsDirectory ==
  NoRemoveDirCall =>
     /\ ret = "Ok"
     /\ fs = fsAtCall
     /\ ops = <<>>

\* C20: during a call of shred_dir on a directory with a name, and after it
\* whatever it returns, every other entry of the parent is there as it was at
\* the call and nothing else has appeared; the directory is there under
\* exactly one name with the content it had, until the final removal has
\* succeeded, and under none after that.
Siblings == DOMAIN fsAtCall \ {orig.name}

Removed == ops # <<>> /\ ops[Len(ops)].op = "rmdir" /\ ops[Len(ops)].ok

TargetNames == DOMAIN fs \ Siblings

====
